---- MODULE Spec2Model ----
(***************************************************************************)
(* Attendance backend (src/proto.py) with its face-matching stub           *)
(* (src/face_recognition_simple.py).                                       *)
(*                                                                         *)
(* State: the two SQLite tables (students, teachers), the image files on   *)
(* disk, the process-wide registry of the stub (three parallel lists) and  *)
(* the response of the last request.  One action per HTTP handler, plus    *)
(* the start of a process (init_db, seed_teacher, load_existing_students). *)
(*                                                                         *)
(* Text whose characters matter (names, file names, paths, the JSON text   *)
(* of an encoding, the student_id form field) is a sequence of one-        *)
(* character strings; the two fixed directory names of a path are one      *)
(* element each.  Confidences of the batch route are in hundredths    *)
(* (0.5 is 50); confidences of the stub are its percent values (85, 45).   *)
(* An encoding element (n/255 - 0.5) * 2 is kept as its numerator 2n - 255 *)
(* over 255.                                                               *)
(***************************************************************************)
EXTENDS Integers, Sequences, FiniteSets, TLC

(* ------------------------------ bounds -------------------------------- *)

\* most rows the students table is allowed to grow to
MaxStudents == 2
\* most entries of a batch request's recognized_students list
MaxBatch == 2
\* length of the stand-in for the 32-digit md5 hex digest
DigestLen == 2
\* length of the stand-in for the 128-element encoding
EncLen == 2

(* ------------------------------- text --------------------------------- *)

Max(a, b) == IF a >= b THEN a ELSE b

Range(s) == {s[i] : i \in 1..Len(s)}

DigitChars == <<"0", "1", "2", "3", "4", "5", "6", "7", "8", "9">>

IsDigit(c) == \E d \in 1..10 : DigitChars[d] = c

DigitVal(c) == (CHOOSE d \in 1..10 : DigitChars[d] = c) - 1

\* the decimal digits of a natural number
RECURSIVE Digits(_)
Digits(n) == IF n < 10 THEN <<DigitChars[n + 1]>>
             ELSE Digits(n \div 10) \o <<DigitChars[(n % 10) + 1]>>

\* the natural number a non-empty digit string denotes
RECURSIVE DigitsVal(_)
DigitsVal(s) == IF Len(s) = 0 THEN 0
                ELSE 10 * DigitsVal(SubSeq(s, 1, Len(s) - 1)) + DigitVal(s[Len(s)])

AllDigits(s) == Len(s) > 0 /\ \A i \in 1..Len(s) : IsDigit(s[i])

\* the elements the model's paths are written in
Alphabet == <<"/", "_", "a", "b", "f", "/tmp/data", "student_images">>

Ord(c) == CHOOSE k \in 1..Len(Alphabet) : Alphabet[k] = c

\* position of the last "/" of a path, 0 when it has none
LastSlash(p) == IF \E i \in 1..Len(p) : p[i] = "/"
                THEN CHOOSE i \in 1..Len(p) :
                         p[i] = "/" /\ \A j \in (i + 1)..Len(p) : p[j] # "/"
                ELSE 0

\* os.path.dirname
DirName(p) == IF LastSlash(p) <= 1 THEN SubSeq(p, 1, LastSlash(p))
              ELSE SubSeq(p, 1, LastSlash(p) - 1)

\* os.path.join(a, b): an absolute b replaces a
PathJoin(a, b) == IF Len(b) > 0 /\ b[1] = "/" THEN b ELSE a \o <<"/">> \o b

(* --------------------------- data directory --------------------------- *)

TMP_DIR == <<"/tmp/data">>

\* get_data_dir() where /mnt/data is absent: the fallback
DATA_DIR == TMP_DIR

IMAGE_FOLDER == PathJoin(DATA_DIR, <<"student_images">>)

\* the directories os.makedirs has made
ExistingDirs == {DATA_DIR, IMAGE_FOLDER}

(* ------------------------------ values -------------------------------- *)

\* a Python value that may be None
None == [none |-> TRUE, val |-> <<>>]

Some(v) == [none |-> FALSE, val |-> v]

\* Python None where a student id is expected; as an SQL parameter it is NULL,
\* which equals no row id (AUTOINCREMENT ids start at 1)
NoneId == 0

(* --------------------------- the stub's maths ------------------------- *)

\* stand-in for hashlib.md5(path).hexdigest(): DigestLen hex digits (0..15),
\* a deterministic function of the characters of the path
RECURSIVE Mix(_, _)
Mix(p, k) == IF Len(p) = 0 THEN k
             ELSE (Mix(SubSeq(p, 1, Len(p) - 1), k) * 5 + Ord(p[Len(p)]) * k + k) % 16

HexDigest(p) == [k \in 1..DigestLen |-> Mix(p, k)]

\* encoding of load_face_from_image_path: element i (from 0) is the two hex
\* digits at i and i+1 (cyclically) as a number n in 0..255, scaled to
\* (n/255 - 0.5) * 2 = (2n - 255) / 255
EncodingOf(p) ==
    LET h == HexDigest(p)
    IN  [j \in 1..EncLen |->
            2 * (16 * h[((j - 1) % DigestLen) + 1] + h[(j % DigestLen) + 1]) - 255]

\* load_face_from_image_path: None when the file does not exist
load_face_from_image_path(fs, p) ==
    IF p \notin fs THEN None
    ELSE Some(EncodingOf(p))

\* text of one number
DumpNum(v) == IF v < 0 THEN <<"-">> \o Digits(0 - v) ELSE Digits(v)

RECURSIVE DumpItems(_)
DumpItems(e) == IF Len(e) = 0 THEN <<>>
                ELSE IF Len(e) = 1 THEN DumpNum(e[1])
                ELSE DumpNum(e[1]) \o <<",", " ">> \o DumpItems(Tail(e))

\* json.dumps of a list of numbers: "[x, y, ...]"
get_face_encoding_as_json(e) == <<"[">> \o DumpItems(e) \o <<"]">>

\* one number of the text: optional "-", then digits
NumOk(s) == IF Len(s) > 0 /\ s[1] = "-" THEN AllDigits(Tail(s)) ELSE AllDigits(s)

NumVal(s) == IF s[1] = "-" THEN 0 - DigitsVal(Tail(s)) ELSE DigitsVal(s)

\* the items of a comma-separated text, blanks dropped
RECURSIVE SplitItems(_, _)
SplitItems(s, cur) ==
    IF Len(s) = 0 THEN <<cur>>
    ELSE IF s[1] = "," THEN <<cur>> \o SplitItems(Tail(s), <<>>)
    ELSE IF s[1] = " " THEN SplitItems(Tail(s), cur)
    ELSE SplitItems(Tail(s), Append(cur, s[1]))

\* json.loads of such a text; load_face_encoding_from_json returns None for
\* an empty text and for a text json.loads rejects
load_face_encoding_from_json(s) ==
    IF Len(s) < 2 \/ s[1] # "[" \/ s[Len(s)] # "]"
    THEN None
    ELSE LET body  == SubSeq(s, 2, Len(s) - 1)
             items == IF Len(body) = 0 THEN <<>> ELSE SplitItems(body, <<>>)
         IN  IF \A i \in 1..Len(items) : NumOk(items[i])
             THEN Some([i \in 1..Len(items) |-> NumVal(items[i])])
             ELSE None

(* ------------------------------- state -------------------------------- *)

VARIABLES
    students,          \* table students, in rowid order
    teachers,          \* table teachers, in rowid order
    files,             \* paths of the image files on disk
    known_faces,       \* face_service.known_faces
    known_face_names,  \* face_service.known_face_names
    known_face_ids,    \* face_service.known_face_ids
    resp,              \* the last request with its response
    reload_req,        \* a load_students_into_face_service request under way
    register_req,      \* a register_student request under way
    query_req          \* a recognition or status request under way

vars == <<students, teachers, files, known_faces, known_face_names, known_face_ids, resp,
          reload_req, register_req, query_req>>

db == <<students, teachers, files>>

registry == <<known_faces, known_face_names, known_face_ids>>

\* the requests under way; a handler taken as one step leaves them alone
threads == <<reload_req, register_req, query_req>>

\* no such request under way
IdleReload == [pc |-> "idle", rows |-> <<>>, k |-> 0, loaded_count |-> 0]

IdleRegister == [pc |-> "idle", name |-> <<>>, image |-> [given |-> FALSE, filename |-> <<>>],
                 image_path |-> <<>>, student_id |-> NoneId]

IdleQuery == [pc |-> "idle", count |-> 0, results |-> <<>>]

(* ------------------------------ storage ------------------------------- *)

\* rowid an INSERT into an AUTOINCREMENT table gets (no row is ever deleted)
RECURSIVE MaxId(_)
MaxId(tbl) == IF Len(tbl) = 0 THEN 0 ELSE Max(tbl[Len(tbl)].id, MaxId(SubSeq(tbl, 1, Len(tbl) - 1)))

NextRowId(tbl) == MaxId(tbl) + 1

\* INSERT INTO students (name, image_path, face_encoding): present takes the
\* column's DEFAULT 0
InsertStudent(tbl, name, image_path, face_encoding_json) ==
    Append(tbl, [id |-> NextRowId(tbl), name |-> name, image_path |-> image_path,
                 face_encoding |-> face_encoding_json, present |-> 0])

\* mutant: the UPDATE without its WHERE clause
UpdatePresentNoWhere(tbl, sid, v) == [i \in 1..Len(tbl) |-> [tbl[i] EXCEPT !.present = v]]

\* mutant: the UPDATE counts attendances up instead of setting the flag
UpdatePresentIncrement(tbl, sid, v) ==
    [i \in 1..Len(tbl) |->
        IF tbl[i].id = sid THEN [tbl[i] EXCEPT !.present = tbl[i].present + v] ELSE tbl[i]]

\* UPDATE students SET present=v WHERE id=sid
UpdatePresent(tbl, sid, v) ==
    [i \in 1..Len(tbl) |-> IF tbl[i].id = sid THEN [tbl[i] EXCEPT !.present = v] ELSE tbl[i]]

\* mutant: the reset reaches the first row only
UpdatePresentFirst(tbl) ==
    [i \in 1..Len(tbl) |-> IF i = 1 THEN [tbl[i] EXCEPT !.present = 0] ELSE tbl[i]]

\* UPDATE students SET present=0
UpdatePresentAll(tbl) == [i \in 1..Len(tbl) |-> [tbl[i] EXCEPT !.present = 0]]

\* UPDATE students SET face_encoding=j WHERE id=sid
UpdateEncoding(tbl, sid, j) ==
    [i \in 1..Len(tbl) |-> IF tbl[i].id = sid THEN [tbl[i] EXCEPT !.face_encoding = j] ELSE tbl[i]]

\* a text parameter compared with the INTEGER column id: a text that reads as
\* an integer is converted (NUMERIC affinity), any other text equals no id
TextAsId(s) == IF AllDigits(s) THEN DigitsVal(s) ELSE NoneId

\* INSERT OR IGNORE INTO teachers: ignored when the UNIQUE username is taken
InsertOrIgnoreTeacher(tbl, username, password) ==
    IF \E i \in 1..Len(tbl) : tbl[i].username = username THEN tbl
    ELSE Append(tbl, [id |-> NextRowId(tbl), username |-> username, password |-> password])

seed_teacher(tbl) == InsertOrIgnoreTeacher(tbl, "teacher1", "1234")

(* ----------------------- request parameter values --------------------- *)

\* a JSON or form value of the login request: a string, an integer or null
StrV(s) == [t |-> "str", s |-> s, n |-> 0]

IntV(n) == [t |-> "int", s |-> "", n |-> n]

NullV == [t |-> "null", s |-> "", n |-> 0]

\* Python's "not v"
Falsy(v) == v.t = "null" \/ (v.t = "str" /\ v.s = "") \/ (v.t = "int" /\ v.n = 0)

\* a parameter compared with a TEXT column: an integer is converted to its
\* decimal text (TEXT affinity); NULL equals nothing
EqualsText(col, v) ==
    CASE v.t = "str" -> col = v.s
      [] v.t = "int" -> col = ToString(v.n)
      [] OTHER -> FALSE

\* SELECT id FROM teachers WHERE username=? AND password=?; fetchone
verify_teacher(tbl, username, password) ==
    LET hit == {i \in 1..Len(tbl) :
                   EqualsText(tbl[i].username, username) /\ EqualsText(tbl[i].password, password)}
    IN  IF hit = {} THEN NoneId ELSE tbl[CHOOSE i \in hit : \A j \in hit : i <= j].id

(* ----------------------------- the registry --------------------------- *)

\* the three lists of the service as one value
Registry(faces, names, ids) == [faces |-> faces, names |-> names, ids |-> ids]

\* SimpleFaceRecognitionService.__init__ and clear_known_faces
EmptyRegistry == Registry(<<>>, <<>>, <<>>)

\* mutant: the reload keeps what the registry holds
clear_nothing(reg) == reg

clear_known_faces(reg) == EmptyRegistry

\* mutant: the new face is put in front of the lists
add_known_face_in_front(reg, face_encoding, name, student_id) ==
    Registry(<<[encoding |-> face_encoding, name |-> name, id |-> student_id]>> \o reg.faces,
             <<name>> \o reg.names,
             <<student_id>> \o reg.ids)

add_known_face(reg, face_encoding, name, student_id) ==
    Registry(Append(reg.faces, [encoding |-> face_encoding, name |-> name, id |-> student_id]),
             Append(reg.names, name),
             Append(reg.ids, student_id))

get_known_faces_count(reg) == Len(reg.faces)

CurrentRegistry == Registry(known_faces, known_face_names, known_face_ids)

Unknown == <<"U", "n", "k", "n", "o", "w", "n">>

\* mutant: the last known face is reported, not the first
recognize_last_face(reg) ==
    LET n == Len(reg.faces)
        found == IF n > 0
                 THEN <<[id |-> reg.faces[n].id, name |-> reg.faces[n].name, confidence |-> 85,
                         location |-> [top |-> 100, right |-> 200, bottom |-> 300, left |-> 50]]>>
                 ELSE <<>>
    IN  IF Len(found) = 0 \/ (n > 1 /\ Len(found) < 2)
        THEN Append(found, [id |-> NoneId, name |-> Unknown, confidence |-> 45,
                            location |-> [top |-> 150, right |-> 250, bottom |-> 350, left |-> 100]])
        ELSE found

\* the mock result list: the first known face at confidence 85, and an
\* "Unknown" face at 45 when nothing was found or when more than one face is
\* known and fewer than two results were produced
recognize_faces_in_image(reg) ==
    LET found == IF Len(reg.faces) > 0
                 THEN <<[id |-> reg.faces[1].id, name |-> reg.faces[1].name, confidence |-> 85,
                         location |-> [top |-> 100, right |-> 200, bottom |-> 300, left |-> 50]]>>
                 ELSE <<>>
    IN  IF Len(found) = 0 \/ (Len(reg.faces) > 1 /\ Len(found) < 2)
        THEN Append(found, [id |-> NoneId, name |-> Unknown, confidence |-> 45,
                            location |-> [top |-> 150, right |-> 250, bottom |-> 350, left |-> 100]])
        ELSE found

\* the loop over the selected rows that load_existing_students and
\* load_students_into_face_service share: st is the registry, the table (a
\* row without an encoding gets one written back) and loaded_count
RECURSIVE LoadRows(_, _, _, _)
LoadRows(st, rows, fs, k) ==
    IF k > Len(rows) THEN st
    ELSE LET row == rows[k]
             fromJson == load_face_encoding_from_json(row.face_encoding)
             fromFile == load_face_from_image_path(fs, row.image_path)
         IN  IF Len(row.face_encoding) > 0
             THEN LoadRows([reg |-> add_known_face(st.reg, fromJson, row.name, row.id),
                            tbl |-> st.tbl,
                            loaded_count |-> st.loaded_count + 1], rows, fs, k + 1)
             ELSE IF Len(row.image_path) > 0 /\ row.image_path \in fs /\ ~fromFile.none
             THEN LoadRows([reg |-> add_known_face(st.reg, fromFile, row.name, row.id),
                            tbl |-> UpdateEncoding(st.tbl, row.id,
                                                   get_face_encoding_as_json(fromFile.val)),
                            loaded_count |-> st.loaded_count + 1], rows, fs, k + 1)
             ELSE LoadRows(st, rows, fs, k + 1)

\* load_existing_students: adds to the registry as it is
LoadExisting(reg, tbl, fs) == LoadRows([reg |-> reg, tbl |-> tbl, loaded_count |-> 0], tbl, fs, 1)

\* load_students_into_face_service: clears the registry first
Reload(reg, tbl, fs) ==
    LoadRows([reg |-> clear_known_faces(reg), tbl |-> tbl, loaded_count |-> 0], tbl, fs, 1)

(* ------------------------------- listing ------------------------------ *)

\* the students list of GET /students
ListStudents(tbl) ==
    [i \in 1..Len(tbl) |->
        [id |-> tbl[i].id, name |-> tbl[i].name,
         status |-> IF tbl[i].present = 1 THEN "present" ELSE "absent"]]

(* ------------------------------- inputs ------------------------------- *)

\* the name field of a registration: missing, plain, or with a "/"
Names == {<<>>, <<"a">>, <<"b">>, <<"a", "/", "b">>}

\* the image part of a request: absent, or a file with its client file name
\* (a FileStorage whose file name is empty is falsy)
Images == {[given |-> FALSE, filename |-> <<>>],
           [given |-> TRUE, filename |-> <<>>],
           [given |-> TRUE, filename |-> <<"f">>]}

NoImage(image) == ~image.given \/ Len(image.filename) = 0

\* a username as a request can carry it (null: the key or field is missing)
Usernames == {StrV("teacher1"), StrV("teacher2"), NullV}

\* a password as a JSON body can carry it: a string, a number, nothing
JsonPasswords == {StrV("1234"), StrV("12345"), IntV(1234), NullV}

\* ... and as a form can: strings, or nothing
FormPasswords == {v \in JsonPasswords : v.t # "int"}

\* the student_id form field
StudentIdTexts == {<<>>, <<"1">>, <<"0", "1">>, <<"2">>, <<"x">>}

\* the status form field
Statuses == {"present", "absent", "late"}

\* the ids a batch request names
BatchIds == {1, 2}

\* one entry of recognized_students: an id, and a confidence in hundredths
\* unless the key is missing (the confidence field is then not read)
BatchEntries == {e \in [id : BatchIds, has_confidence : BOOLEAN, confidence : {49, 50}] :
                     ~e.has_confidence => (e.confidence = 49 /\ e.id = 1)}

RECURSIVE SeqsUpTo(_, _)
SeqsUpTo(S, n) == IF n = 0 THEN {<<>>}
                  ELSE SeqsUpTo(S, n - 1) \cup
                       {Append(q, x) : q \in {r \in SeqsUpTo(S, n - 1) : Len(r) = n - 1}, x \in S}

BatchLists == SeqsUpTo(BatchEntries, MaxBatch)

(* -------------------------------- Init -------------------------------- *)

\* a process start: init_db finds or creates the tables, seed_teacher runs,
\* load_existing_students fills the fresh (empty) registry
StartProcess(tbl, tch, fs) ==
    LET loaded == LoadExisting(EmptyRegistry, tbl, fs)
    IN  [students |-> loaded.tbl, teachers |-> seed_teacher(tch), reg |-> loaded.reg]

\* the first start, on an empty data directory
Init ==
    LET st == StartProcess(<<>>, <<>>, {})
    IN  /\ students = st.students
        /\ teachers = st.teachers
        /\ files = {}
        /\ known_faces = st.reg.faces
        /\ known_face_names = st.reg.names
        /\ known_face_ids = st.reg.ids
        /\ resp = [op |-> "startup"]
        /\ reload_req = IdleReload
        /\ register_req = IdleRegister
        /\ query_req = IdleQuery

\* the process is stopped and started again on the same data directory
Startup ==
    LET st == StartProcess(students, teachers, files)
    IN  /\ students' = st.students
        /\ teachers' = st.teachers
        /\ known_faces' = st.reg.faces
        /\ known_face_names' = st.reg.names
        /\ known_face_ids' = st.reg.ids
        /\ resp' = [op |-> "startup"]
        /\ UNCHANGED <<files, threads>>

(* ------------------------------ handlers ------------------------------ *)

\* POST /student/register
register_student(name, image) ==
    LET image_path == PathJoin(IMAGE_FOLDER, name \o <<"_">> \o image.filename)
        saved == files \cup {image_path}
        face_encoding == load_face_from_image_path(saved, image_path)
        face_encoding_json == get_face_encoding_as_json(face_encoding.val)
        student_id == NextRowId(students)
        reg == add_known_face(CurrentRegistry, face_encoding, name, student_id)
        answer(code, id) == [op |-> "register", name |-> name, image |-> image,
                             code |-> code, success |-> code = 200, student_id |-> id]
    IN  /\ Len(students) < MaxStudents
        /\ IF Len(name) = 0 \/ NoImage(image)
           THEN /\ resp' = answer(400, NoneId)
                /\ UNCHANGED <<db, registry, threads>>
           ELSE IF DirName(image_path) \notin ExistingDirs
           THEN \* image.save raises: no such directory
                /\ resp' = answer(500, NoneId)
                /\ UNCHANGED <<db, registry, threads>>
           ELSE IF face_encoding.none
           THEN /\ files' = saved
                /\ resp' = answer(400, NoneId)
                /\ UNCHANGED <<students, teachers, registry, threads>>
           ELSE /\ files' = saved
                /\ students' = InsertStudent(students, name, image_path, face_encoding_json)
                /\ known_faces' = reg.faces
                /\ known_face_names' = reg.names
                /\ known_face_ids' = reg.ids
                /\ resp' = answer(200, student_id)
                /\ UNCHANGED <<teachers, threads>>

\* POST /teacher/login; json tells whether the body was JSON or a form
teacher_login(json, username, password) ==
    LET teacher_id == verify_teacher(teachers, username, password)
        answer(code, id) == [op |-> "login", username |-> username, password |-> password,
                             code |-> code, success |-> code = 200, teacher_id |-> id]
    IN  /\ ~json => password \in FormPasswords
        /\ resp' = IF Falsy(username) \/ Falsy(password) THEN answer(400, NoneId)
                   ELSE IF teacher_id = NoneId THEN answer(401, NoneId)
                   ELSE answer(200, teacher_id)
        /\ UNCHANGED <<db, registry, threads>>

\* mutant: the threshold itself does not count
ConfidentStrictly(confidence) == confidence > 50

\* the batch route's test of a confidence (0.5, in hundredths)
ConfidentEnough(confidence) == confidence >= 50

\* the loop of mark_attendance over recognized_students
RECURSIVE MarkLoop(_, _, _)
MarkLoop(st, rs, k) ==
    IF k > Len(rs) THEN st
    ELSE LET sid == rs[k].id
             confidence == IF rs[k].has_confidence THEN rs[k].confidence ELSE 100
         IN  IF ConfidentEnough(confidence)
             THEN MarkLoop([tbl |-> UpdatePresent(st.tbl, sid, 1),
                            present_students |-> Append(st.present_students, sid),
                            unidentifiable_students |-> st.unidentifiable_students], rs, k + 1)
             ELSE MarkLoop([tbl |-> st.tbl,
                            present_students |-> st.present_students,
                            unidentifiable_students |-> Append(st.unidentifiable_students, sid)],
                           rs, k + 1)

\* POST /teacher/attendance
mark_attendance(recognized_students) ==
    LET done == MarkLoop([tbl |-> students, present_students |-> <<>>,
                          unidentifiable_students |-> <<>>], recognized_students, 1)
    IN  /\ students' = done.tbl
        /\ resp' = [op |-> "mark_attendance", recognized_students |-> recognized_students,
                    code |-> 200, success |-> TRUE,
                    present_students |-> done.present_students,
                    unidentifiable_students |-> done.unidentifiable_students]
        /\ UNCHANGED <<teachers, files, registry, threads>>

\* mutant: the validation forgets the status
InvalidManualMarkIdOnly(student_id, status) == Len(student_id) = 0

\* the validation of manual_mark
InvalidManualMark(student_id, status) ==
    Len(student_id) = 0 \/ status \notin {"present", "absent"}

\* POST /teacher/manual_mark
manual_mark(student_id, status) ==
    LET present_value == IF status = "present" THEN 1 ELSE 0
        answer(code) == [op |-> "manual_mark", student_id |-> student_id, status |-> status,
                         code |-> code, success |-> code = 200]
    IN  IF InvalidManualMark(student_id, status)
        THEN /\ resp' = answer(400)
             /\ UNCHANGED <<db, registry, threads>>
        ELSE /\ students' = UpdatePresent(students, TextAsId(student_id), present_value)
             /\ resp' = answer(200)
             /\ UNCHANGED <<teachers, files, registry, threads>>

\* GET /students
list_students ==
    /\ resp' = [op |-> "list", code |-> 200, students |-> ListStudents(students)]
    /\ UNCHANGED <<db, registry, threads>>

\* POST /face/recognize: tolerance_ok is whether the tolerance field reads as
\* a float
recognize_faces(image, tolerance_ok) ==
    LET results == recognize_faces_in_image(CurrentRegistry)
        answer(code, rs) == [op |-> "recognize", image |-> image, code |-> code,
                             success |-> code = 200, faces_detected |-> Len(rs),
                             recognitions |-> rs]
    IN  /\ resp' = IF ~tolerance_ok THEN answer(500, <<>>)
                   ELSE IF NoImage(image) THEN answer(400, <<>>)
                   ELSE answer(200, results)
        /\ UNCHANGED <<db, registry, threads>>

\* POST /face/recognize-base64: has_image is whether the body's image string
\* is non-empty
recognize_faces_base64(has_image, tolerance_ok) ==
    LET results == recognize_faces_in_image(CurrentRegistry)
        answer(code, rs) == [op |-> "recognize_base64", has_image |-> has_image, code |-> code,
                             success |-> code = 200, faces_detected |-> Len(rs),
                             recognitions |-> rs]
    IN  /\ resp' = IF ~tolerance_ok THEN answer(500, <<>>)
                   ELSE IF ~has_image THEN answer(400, <<>>)
                   ELSE answer(200, results)
        /\ UNCHANGED <<db, registry, threads>>

\* mutant: the comparison is the wrong way round
QualifiesBelow(result) == result.confidence < 60 /\ result.id # NoneId

\* the face route's filter of a recognition result
Qualifies(result) == result.confidence >= 60 /\ result.id # NoneId

\* recognized_students of mark_attendance_face: the qualifying results, in order
RECURSIVE FilterResults(_)
FilterResults(results) ==
    IF Len(results) = 0 THEN <<>>
    ELSE (IF Qualifies(results[1])
          THEN <<[id |-> results[1].id, name |-> results[1].name,
                  confidence |-> results[1].confidence]>>
          ELSE <<>>) \o FilterResults(Tail(results))

\* the loop of mark_attendance_face over recognized_students
RECURSIVE FaceMarkLoop(_, _, _)
FaceMarkLoop(st, rs, k) ==
    IF k > Len(rs) THEN st
    ELSE IF rs[k].confidence >= 60
         THEN FaceMarkLoop([tbl |-> UpdatePresent(st.tbl, rs[k].id, 1),
                            present_students |-> Append(st.present_students, rs[k]),
                            unidentifiable_students |-> st.unidentifiable_students], rs, k + 1)
         ELSE FaceMarkLoop([tbl |-> st.tbl,
                            present_students |-> st.present_students,
                            unidentifiable_students |->
                                Append(st.unidentifiable_students, rs[k].id)], rs, k + 1)

\* POST /attendance/face-mark
mark_attendance_face(image, tolerance_ok) ==
    LET results == recognize_faces_in_image(CurrentRegistry)
        recognized_students == FilterResults(results)
        done == FaceMarkLoop([tbl |-> students, present_students |-> <<>>,
                              unidentifiable_students |-> <<>>], recognized_students, 1)
        answer(code, n, rec, pres, unid) ==
            [op |-> "face_mark", image |-> image, code |-> code, success |-> code = 200,
             faces_detected |-> n, recognized_students |-> rec,
             present_students |-> pres, unidentifiable_students |-> unid]
    IN  IF ~tolerance_ok
        THEN /\ resp' = answer(500, 0, <<>>, <<>>, <<>>)
             /\ UNCHANGED <<db, registry, threads>>
        ELSE IF NoImage(image)
        THEN /\ resp' = answer(400, 0, <<>>, <<>>, <<>>)
             /\ UNCHANGED <<db, registry, threads>>
        ELSE /\ students' = done.tbl
             /\ resp' = answer(200, Len(results), recognized_students,
                               done.present_students, done.unidentifiable_students)
             /\ UNCHANGED <<teachers, files, registry, threads>>

\* POST /face/load-students
load_students_into_face_service ==
    LET done == Reload(CurrentRegistry, students, files)
    IN  /\ known_faces' = done.reg.faces
        /\ known_face_names' = done.reg.names
        /\ known_face_ids' = done.reg.ids
        /\ students' = done.tbl
        /\ resp' = [op |-> "load_students", code |-> 200, success |-> TRUE,
                    loaded_count |-> done.loaded_count, total_students |-> Len(students)]
        /\ UNCHANGED <<teachers, files, threads>>

\* GET /face/status
face_service_status ==
    /\ resp' = [op |-> "status", code |-> 200, success |-> TRUE,
                known_faces_count |-> get_known_faces_count(CurrentRegistry),
                known_face_names |-> known_face_names]
    /\ UNCHANGED <<db, registry, threads>>

\* POST /attendance/reset
reset_attendance ==
    /\ students' = UpdatePresentAll(students)
    /\ resp' = [op |-> "reset", code |-> 200, success |-> TRUE]
    /\ UNCHANGED <<teachers, files, registry, threads>>

(* ---------------------------- specification --------------------------- *)

Register == \E name \in Names, image \in Images : register_student(name, image)

Login == \E json \in BOOLEAN, username \in Usernames, password \in JsonPasswords :
             teacher_login(json, username, password)

BatchMark == \E rs \in BatchLists : mark_attendance(rs)

ManualMark == \E student_id \in StudentIdTexts, status \in Statuses :
                  manual_mark(student_id, status)

Recognize == \E image \in Images, tolerance_ok \in BOOLEAN : recognize_faces(image, tolerance_ok)

RecognizeBase64 == \E has_image \in BOOLEAN, tolerance_ok \in BOOLEAN :
                       recognize_faces_base64(has_image, tolerance_ok)

FaceMark == \E image \in Images, tolerance_ok \in BOOLEAN :
                mark_attendance_face(image, tolerance_ok)

Next ==
    \/ Startup
    \/ Register
    \/ Login
    \/ BatchMark
    \/ ManualMark
    \/ list_students
    \/ Recognize
    \/ RecognizeBase64
    \/ FaceMark
    \/ load_students_into_face_service
    \/ face_service_status
    \/ reset_attendance

Spec == Init /\ [][Next]_vars

(* ------------------- requests that run interleaved ------------------- *)
(* The handlers above are taken one at a time.  Here a reload, a           *)
(* registration and a query run as threads of the server: one step is one  *)
(* access to the tables, the files or a list of the registry, and nothing  *)
(* locks any of them.                                                      *)

ReloadPcs == {"clear_faces", "clear_names", "clear_ids", "row", "add_face", "add_name", "add_id"}

\* the encoding the loop of a reload has for a row: from the stored JSON
\* text, else from the image file
RowEncoding(row, fs) ==
    IF Len(row.face_encoding) > 0 THEN load_face_encoding_from_json(row.face_encoding)
    ELSE IF Len(row.image_path) > 0 /\ row.image_path \in fs
    THEN load_face_from_image_path(fs, row.image_path)
    ELSE None

\* whether the loop adds the row: a stored text is added whatever it
\* decodes to, an image only when it gives an encoding
RowIsLoaded(row, fs) == Len(row.face_encoding) > 0 \/ ~RowEncoding(row, fs).none

\* load_students_into_face_service: SELECT ... FROM students; fetchall
ReloadSelect ==
    /\ reload_req.pc = "idle"
    /\ reload_req' = [pc |-> "clear_faces", rows |-> students, k |-> 1, loaded_count |-> 0]
    /\ UNCHANGED <<db, registry, resp, register_req, query_req>>

\* clear_known_faces: self.known_faces = []
ReloadClearFaces ==
    /\ reload_req.pc = "clear_faces"
    /\ known_faces' = clear_known_faces(CurrentRegistry).faces
    /\ reload_req' = [reload_req EXCEPT !.pc = "clear_names"]
    /\ UNCHANGED <<db, known_face_names, known_face_ids, resp, register_req, query_req>>

\* clear_known_faces: self.known_face_names = []
ReloadClearNames ==
    /\ reload_req.pc = "clear_names"
    /\ known_face_names' = clear_known_faces(CurrentRegistry).names
    /\ reload_req' = [reload_req EXCEPT !.pc = "clear_ids"]
    /\ UNCHANGED <<db, known_faces, known_face_ids, resp, register_req, query_req>>

\* clear_known_faces: self.known_face_ids = []
ReloadClearIds ==
    /\ reload_req.pc = "clear_ids"
    /\ known_face_ids' = clear_known_faces(CurrentRegistry).ids
    /\ reload_req' = [reload_req EXCEPT !.pc = "row"]
    /\ UNCHANGED <<db, known_faces, known_face_names, resp, register_req, query_req>>

\* the head of the loop over the selected rows; after the last row the
\* response
ReloadRow ==
    /\ reload_req.pc = "row"
    /\ IF reload_req.k > Len(reload_req.rows)
       THEN /\ resp' = [op |-> "load_students", code |-> 200, success |-> TRUE,
                        loaded_count |-> reload_req.loaded_count,
                        total_students |-> Len(reload_req.rows)]
            /\ reload_req' = IdleReload
       ELSE /\ reload_req' =
                   IF RowIsLoaded(reload_req.rows[reload_req.k], files)
                   THEN [reload_req EXCEPT !.pc = "add_face"]
                   ELSE [reload_req EXCEPT !.k = @ + 1]
            /\ UNCHANGED resp
    /\ UNCHANGED <<db, registry, register_req, query_req>>

\* add_known_face: self.known_faces.append(...)
ReloadAddFace ==
    LET row == reload_req.rows[reload_req.k]
    IN  /\ reload_req.pc = "add_face"
        /\ known_faces' = add_known_face(CurrentRegistry, RowEncoding(row, files),
                                         row.name, row.id).faces
        /\ reload_req' = [reload_req EXCEPT !.pc = "add_name"]
        /\ UNCHANGED <<db, known_face_names, known_face_ids, resp, register_req, query_req>>

\* add_known_face: self.known_face_names.append(name)
ReloadAddName ==
    LET row == reload_req.rows[reload_req.k]
    IN  /\ reload_req.pc = "add_name"
        /\ known_face_names' = add_known_face(CurrentRegistry, RowEncoding(row, files),
                                              row.name, row.id).names
        /\ reload_req' = [reload_req EXCEPT !.pc = "add_id"]
        /\ UNCHANGED <<db, known_faces, known_face_ids, resp, register_req, query_req>>

\* add_known_face: self.known_face_ids.append(student_id); loaded_count += 1;
\* a row loaded from its image gets its encoding written back
ReloadAddId ==
    LET row == reload_req.rows[reload_req.k]
    IN  /\ reload_req.pc = "add_id"
        /\ known_face_ids' = add_known_face(CurrentRegistry, RowEncoding(row, files),
                                            row.name, row.id).ids
        /\ students' = IF Len(row.face_encoding) > 0 THEN students
                       ELSE UpdateEncoding(students, row.id,
                                get_face_encoding_as_json(RowEncoding(row, files).val))
        /\ reload_req' = [reload_req EXCEPT !.pc = "row", !.k = @ + 1,
                                            !.loaded_count = @ + 1]
        /\ UNCHANGED <<teachers, files, known_faces, known_face_names, resp,
                       register_req, query_req>>

\* register_student up to the encoding: validation, image.save, encoding
RegisterBegin(name, image) ==
    LET image_path == PathJoin(IMAGE_FOLDER, name \o <<"_">> \o image.filename)
        saved == files \cup {image_path}
        face_encoding == load_face_from_image_path(saved, image_path)
        answer(code) == [op |-> "register", name |-> name, image |-> image,
                         code |-> code, success |-> FALSE, student_id |-> NoneId]
    IN  /\ register_req.pc = "idle"
        /\ Len(students) < MaxStudents
        /\ IF Len(name) = 0 \/ NoImage(image)
           THEN /\ resp' = answer(400)
                /\ UNCHANGED <<files, register_req>>
           ELSE IF DirName(image_path) \notin ExistingDirs
           THEN /\ resp' = answer(500)
                /\ UNCHANGED <<files, register_req>>
           ELSE IF face_encoding.none
           THEN /\ files' = saved
                /\ resp' = answer(400)
                /\ UNCHANGED register_req
           ELSE /\ files' = saved
                /\ register_req' = [pc |-> "insert", name |-> name, image |-> image,
                                    image_path |-> image_path, student_id |-> NoneId]
                /\ UNCHANGED resp
        /\ UNCHANGED <<students, teachers, registry, reload_req, query_req>>

\* register_student: INSERT INTO students, lastrowid, commit
RegisterInsert ==
    /\ register_req.pc = "insert"
    /\ students' = InsertStudent(students, register_req.name, register_req.image_path,
                       get_face_encoding_as_json(EncodingOf(register_req.image_path)))
    /\ register_req' = [register_req EXCEPT !.pc = "add_face",
                                            !.student_id = NextRowId(students)]
    /\ UNCHANGED <<teachers, files, registry, resp, reload_req, query_req>>

\* the registry with the face of the registration under way added
RegisterAdded ==
    add_known_face(CurrentRegistry, Some(EncodingOf(register_req.image_path)),
                   register_req.name, register_req.student_id)

\* add_known_face: self.known_faces.append(...)
RegisterAddFace ==
    /\ register_req.pc = "add_face"
    /\ known_faces' = RegisterAdded.faces
    /\ register_req' = [register_req EXCEPT !.pc = "add_name"]
    /\ UNCHANGED <<db, known_face_names, known_face_ids, resp, reload_req, query_req>>

\* add_known_face: self.known_face_names.append(name)
RegisterAddName ==
    /\ register_req.pc = "add_name"
    /\ known_face_names' = RegisterAdded.names
    /\ register_req' = [register_req EXCEPT !.pc = "add_id"]
    /\ UNCHANGED <<db, known_faces, known_face_ids, resp, reload_req, query_req>>

\* add_known_face: self.known_face_ids.append(student_id); the response
RegisterAddId ==
    /\ register_req.pc = "add_id"
    /\ known_face_ids' = RegisterAdded.ids
    /\ resp' = [op |-> "register", name |-> register_req.name, image |-> register_req.image,
                code |-> 200, success |-> TRUE, student_id |-> register_req.student_id]
    /\ register_req' = IdleRegister
    /\ UNCHANGED <<db, known_faces, known_face_names, reload_req, query_req>>

\* the result recognize_faces_in_image makes of a known face
FaceResult(face) ==
    [id |-> face.id, name |-> face.name, confidence |-> 85,
     location |-> [top |-> 100, right |-> 200, bottom |-> 300, left |-> 50]]

\* ... and its "Unknown" result
UnknownResult ==
    [id |-> NoneId, name |-> Unknown, confidence |-> 45,
     location |-> [top |-> 150, right |-> 250, bottom |-> 350, left |-> 100]]

\* the response of a recognition that ran as a thread
RecognizeAnswer(results) ==
    [op |-> "recognize", image |-> [given |-> TRUE, filename |-> <<"f">>], code |-> 200,
     success |-> TRUE, faces_detected |-> Len(results), recognitions |-> results]

\* recognize_faces_in_image: if len(self.known_faces) > 0
RecognizeReadLen ==
    /\ query_req.pc = "idle"
    /\ query_req' = [pc |-> IF Len(known_faces) > 0 THEN "rec_first" ELSE "rec_unknown",
                     count |-> Len(known_faces), results |-> <<>>]
    /\ UNCHANGED <<db, registry, resp, reload_req, register_req>>

\* recognize_faces_in_image: face = self.known_faces[0]; on a list emptied in
\* between this raises IndexError, which the method answers with []
RecognizeReadFirst ==
    /\ query_req.pc = "rec_first"
    /\ IF Len(known_faces) = 0
       THEN /\ resp' = RecognizeAnswer(<<>>)
            /\ query_req' = IdleQuery
       ELSE /\ query_req' = [query_req EXCEPT !.pc = "rec_unknown",
                                              !.results = <<FaceResult(known_faces[1])>>]
            /\ UNCHANGED resp
    /\ UNCHANGED <<db, registry, reload_req, register_req>>

\* recognize_faces_in_image: if len(results) == 0 or (len(self.known_faces) > 1
\* and len(results) < 2): append the "Unknown" result; the response
RecognizeAddUnknown ==
    LET results == query_req.results
    IN  /\ query_req.pc = "rec_unknown"
        /\ resp' = RecognizeAnswer(
                       IF Len(results) = 0 \/ (Len(known_faces) > 1 /\ Len(results) < 2)
                       THEN Append(results, UnknownResult)
                       ELSE results)
        /\ query_req' = IdleQuery
        /\ UNCHANGED <<db, registry, reload_req, register_req>>

\* face_service_status: face_service.get_known_faces_count()
StatusReadCount ==
    /\ query_req.pc = "idle"
    /\ query_req' = [pc |-> "status_names",
                     count |-> get_known_faces_count(CurrentRegistry), results |-> <<>>]
    /\ UNCHANGED <<db, registry, resp, reload_req, register_req>>

\* face_service_status: face_service.known_face_names; the response
StatusReadNames ==
    /\ query_req.pc = "status_names"
    /\ resp' = [op |-> "status", code |-> 200, success |-> TRUE,
                known_faces_count |-> query_req.count,
                known_face_names |-> known_face_names]
    /\ query_req' = IdleQuery
    /\ UNCHANGED <<db, registry, reload_req, register_req>>

\* a registration taken as one step, while no reload is under way
RegisterAlone == reload_req.pc = "idle" /\ Register

\* queries interleaved with a reload; registrations come one at a time
NextQuery ==
    \/ RegisterAlone
    \/ ReloadSelect
    \/ ReloadClearFaces
    \/ ReloadClearNames
    \/ ReloadClearIds
    \/ ReloadRow
    \/ ReloadAddFace
    \/ ReloadAddName
    \/ ReloadAddId
    \/ RecognizeReadLen
    \/ RecognizeReadFirst
    \/ RecognizeAddUnknown
    \/ StatusReadCount
    \/ StatusReadNames

SpecQuery == Init /\ [][NextQuery]_vars

RegisterStart == \E name \in Names, image \in Images : RegisterBegin(name, image)

\* a registration interleaved with a reload
NextRace ==
    \/ RegisterStart
    \/ RegisterInsert
    \/ RegisterAddFace
    \/ RegisterAddName
    \/ RegisterAddId
    \/ ReloadSelect
    \/ ReloadClearFaces
    \/ ReloadClearNames
    \/ ReloadClearIds
    \/ ReloadRow
    \/ ReloadAddFace
    \/ ReloadAddName
    \/ ReloadAddId

SpecRace == Init /\ [][NextRace]_vars

(* ------------------------------- claims ------------------------------- *)

\* the entry GET /students gives for a row that is absent
AbsentEntry(id, name) == [id |-> id, name |-> name, status |-> "absent"]

\* C1 (as stated): a registration with a non-empty name and an image
\* succeeds with a new id, and the list then holds an entry with that id,
\* that name and status "absent".
C1_RegisterListedAbsent ==
    (resp.op = "register" /\ Len(resp.name) > 0 /\ ~NoImage(resp.image)) =>
        /\ resp.success
        /\ resp.student_id >= 1
        /\ Cardinality({i \in 1..Len(students) : students[i].id = resp.student_id}) = 1
        /\ \E i \in 1..Len(students) :
               ListStudents(students)[i] = AbsentEntry(resp.student_id, resp.name)

\* the row a student_id text names, when it is the decimal text of its id
RowOfText(tbl, text) == {i \in 1..Len(tbl) : Digits(tbl[i].id) = text}

\* C2: manual_mark(id, s) with an existing id and s "present" or "absent"
\* makes the list report exactly s for that student, whatever it reported
\* before, and leaves the status of every other student as it was.
C2_ManualMarkSetsStatus ==
    [][\A student_id \in StudentIdTexts, status \in {"present", "absent"} :
           (manual_mark(student_id, status) /\ RowOfText(students, student_id) # {}) =>
               /\ Len(students') = Len(students)
               /\ \A i \in 1..Len(students) :
                      /\ ListStudents(students')[i].id = ListStudents(students)[i].id
                      /\ ListStudents(students')[i].name = ListStudents(students)[i].name
                      /\ ListStudents(students')[i].status =
                             IF i \in RowOfText(students, student_id) THEN status
                             ELSE ListStudents(students)[i].status]_vars

\* a manual mark of an existing student as absent went through while another
\* student is present
C2_Witness ==
    /\ resp.op = "manual_mark" /\ resp.success /\ resp.status = "absent"
    /\ \E i \in RowOfText(students, resp.student_id) :
           /\ students[i].present = 0
           /\ \E j \in 1..Len(students) : j # i /\ students[j].present = 1

\* C3: a manual_mark whose status is neither "present" nor "absent", or
\* whose student id is missing, is answered 400 and changes no presence flag.
C3_ManualMarkRejected ==
    [][\A student_id \in StudentIdTexts, status \in Statuses :
           (manual_mark(student_id, status)
               /\ (status \notin {"present", "absent"} \/ student_id = <<>>)) =>
               /\ resp'.code = 400
               /\ ~resp'.success
               /\ students' = students]_vars

\* a manual mark with status "late" for an existing, present student was
\* rejected
C3_Witness ==
    /\ resp.op = "manual_mark" /\ resp.code = 400 /\ resp.status = "late"
    /\ \E i \in RowOfText(students, resp.student_id) : students[i].present = 1

\* C4: after reset_attendance the list reports "absent" for every student,
\* whichever were present before and however they were marked.
C4_ResetAllAbsent ==
    [][reset_attendance =>
           /\ Len(students') = Len(students)
           /\ \A i \in 1..Len(students) :
                  ListStudents(students')[i] =
                      AbsentEntry(ListStudents(students)[i].id, ListStudents(students)[i].name)]_vars

\* a reset answered with the table full
C4_Witness ==
    /\ resp.op = "reset" /\ resp.success
    /\ Len(students) = MaxStudents
    /\ \A i \in 1..Len(students) : ListStudents(students)[i].status = "absent"

\* the confidence mark_attendance reads from an entry (1.0 when it has none)
EntryConfidence(e) == IF e.has_confidence THEN e.confidence ELSE 100

IdsOf(entries) == [i \in 1..Len(entries) |-> entries[i].id]

\* C5 (as stated): each input id is in present_students exactly when its
\* confidence is >= 0.5, in unidentifiable_students exactly when it is
\* < 0.5, and no id is in both output lists.
C5_PartitionByIdOriginal ==
    (/\ resp.op = "mark_attendance"
     /\ \A k \in 1..Len(resp.recognized_students) : resp.recognized_students[k].has_confidence) =>
        /\ \A k \in 1..Len(resp.recognized_students) :
               LET e == resp.recognized_students[k]
               IN  /\ (e.id \in Range(resp.present_students)) <=> (EntryConfidence(e) >= 50)
                   /\ (e.id \in Range(resp.unidentifiable_students)) <=> (EntryConfidence(e) < 50)
        /\ Range(resp.present_students) \cap Range(resp.unidentifiable_students) = {}

\* C5 (amended): each input entry goes to exactly one list, in input order:
\* present_students holds the ids of the entries with confidence >= 0.5,
\* unidentifiable_students those of the entries with confidence < 0.5; an
\* id is in both only if the input names it on both sides of the threshold,
\* so never when the input ids are distinct.
C5_PartitionByEntry ==
    resp.op = "mark_attendance" =>
        LET rs == resp.recognized_students
            high == SelectSeq(rs, LAMBDA e : EntryConfidence(e) >= 50)
            low == SelectSeq(rs, LAMBDA e : EntryConfidence(e) < 50)
        IN  /\ resp.present_students = IdsOf(high)
            /\ resp.unidentifiable_students = IdsOf(low)
            /\ Len(resp.present_students) + Len(resp.unidentifiable_students) = Len(rs)
            /\ \A id \in Range(resp.present_students) \cap Range(resp.unidentifiable_students) :
                   \E j, k \in 1..Len(rs) :
                       /\ j # k /\ rs[j].id = id /\ rs[k].id = id
                       /\ EntryConfidence(rs[j]) >= 50 /\ EntryConfidence(rs[k]) < 50
            /\ (\A j, k \in 1..Len(rs) : j # k => rs[j].id # rs[k].id) =>
                   Range(resp.present_students) \cap Range(resp.unidentifiable_students) = {}

\* a batch with one id at the threshold and a second id below it was answered
C5_Witness ==
    /\ resp.op = "mark_attendance"
    /\ Len(resp.recognized_students) = 2
    /\ resp.recognized_students[1].id # resp.recognized_students[2].id
    /\ \E k \in 1..2 : /\ resp.recognized_students[k].has_confidence
                       /\ resp.recognized_students[k].confidence = 50
    /\ Len(resp.present_students) = 1
    /\ Len(resp.unidentifiable_students) = 1

\* the one row seed_teacher makes
SeededTeachers == <<[id |-> 1, username |-> "teacher1", password |-> "1234"]>>

\* C6 (as stated): login succeeds only for the exact pair ("teacher1",
\* "1234"), fails for every other combination, and the teachers table never
\* holds anything but the seeded row.
C6_LoginOnlySeededPair ==
    /\ teachers = SeededTeachers
    /\ resp.op = "login" =>
           (resp.success <=> (resp.username = StrV("teacher1") /\ resp.password = StrV("1234")))

\* C7: with requests one at a time, after startup loading and any sequence
\* of registrations and reloads, the registry is a functional image of the
\* students table: one entry per row, with the row's id, name and encoding,
\* and no entry for an id the table does not hold.
C7_RegistryMirrorsTable ==
    /\ \A i \in 1..Len(students) :
           LET mine == {k \in 1..Len(known_faces) : known_faces[k].id = students[i].id}
           IN  /\ Cardinality(mine) = 1
               /\ \A k \in mine :
                      /\ known_faces[k].name = students[i].name
                      /\ ~known_faces[k].encoding.none
                      /\ known_faces[k].encoding.val = EncodingOf(students[i].image_path)
                      /\ get_face_encoding_as_json(known_faces[k].encoding.val)
                             = students[i].face_encoding
    /\ \A k \in 1..Len(known_faces) :
           \E i \in 1..Len(students) : students[i].id = known_faces[k].id
    /\ known_face_names = [k \in 1..Len(known_faces) |-> known_faces[k].name]
    /\ known_face_ids = [k \in 1..Len(known_faces) |-> known_faces[k].id]

\* a reload was answered with the table full, rows of two names in it
C7_Witness ==
    /\ resp.op = "load_students" /\ resp.loaded_count = MaxStudents
    /\ Len(students) = MaxStudents
    /\ Len(known_faces) = MaxStudents
    /\ \E i, j \in 1..Len(students) : students[i].name # students[j].name

\* the ids the stub's results carry with a non-null id and confidence >= 60
RecognizedIds(results) ==
    {results[k].id : k \in {j \in 1..Len(results) :
                                results[j].id # NoneId /\ results[j].confidence >= 60}}

\* C8: a face-based marking call sets present=1 for exactly the students
\* whose id the stub's results carry with a non-null id and confidence >= 60;
\* a result below 60 or with a null id causes no write, and the flag of
\* every other student is left as it was.
C8_FaceMarkWritesRecognized ==
    [][\A image \in Images, tolerance_ok \in BOOLEAN :
           mark_attendance_face(image, tolerance_ok) =>
               LET results == recognize_faces_in_image(CurrentRegistry)
                   hit == IF resp'.code = 200 THEN RecognizedIds(results) ELSE {}
               IN  /\ (tolerance_ok /\ ~NoImage(image)) <=> resp'.code = 200
                   /\ Len(students') = Len(students)
                   /\ \A i \in 1..Len(students) :
                          students'[i] =
                              IF students[i].id \in hit
                              THEN [students[i] EXCEPT !.present = 1]
                              ELSE students[i]]_vars

\* a face mark found two faces, marked the one it recognized and left a
\* second student absent
C8_Witness ==
    /\ resp.op = "face_mark" /\ resp.code = 200
    /\ resp.faces_detected = 2
    /\ Len(resp.present_students) = 1
    /\ \E i, j \in 1..Len(students) :
           /\ students[i].id = resp.present_students[1].id /\ students[i].present = 1
           /\ students[j].present = 0

UnknownFace(r) == r.id = NoneId /\ r.name = Unknown /\ r.confidence = 45

FirstFace(r) ==
    r.id = known_faces[1].id /\ r.name = known_faces[1].name /\ r.confidence = 85

\* C9: recognition returns the first registered face at confidence 85 when
\* a face is known, and one "Unknown" result (null id, confidence 45)
\* exactly when the registry is empty or holds more than one face: one
\* result for 0 or 1 known faces, two for 2 or more.
C9_RecognitionPattern ==
    (resp.op \in {"recognize", "recognize_base64"} /\ resp.code = 200) =>
        LET r == resp.recognitions
            n == Len(known_faces)
        IN  /\ resp.faces_detected = Len(r)
            /\ n = 0 => (Len(r) = 1 /\ UnknownFace(r[1]))
            /\ n = 1 => (Len(r) = 1 /\ FirstFace(r[1]))
            /\ n >= 2 => (Len(r) = 2 /\ FirstFace(r[1]) /\ UnknownFace(r[2]))
            /\ (\E k \in 1..Len(r) : UnknownFace(r[k])) <=> (n = 0 \/ n > 1)

\* a recognition was answered with two faces of different names known
C9_Witness ==
    /\ resp.op = "recognize" /\ resp.code = 200
    /\ Len(known_faces) >= 2
    /\ known_faces[1].name # known_faces[2].name
    /\ Len(resp.recognitions) = 2

\* C10: the present flag of every student row is 0 or 1.
C10_PresentIsFlag == \A i \in 1..Len(students) : students[i].present \in {0, 1}

\* a student was marked present a second time and another was never marked
C10_Witness ==
    /\ resp.op = "mark_attendance"
    /\ Len(resp.present_students) = 2
    /\ resp.present_students[1] = resp.present_students[2]
    /\ \E i, j \in 1..Len(students) :
           /\ students[i].id = resp.present_students[1] /\ students[i].present = 1
           /\ students[j].present = 0

\* s is the beginning of t
IsPrefix(s, t) == Len(s) <= Len(t) /\ \A i \in 1..Len(s) : s[i] = t[i]

\* the registry entries the rows of a table give, in row order
ImageOfTable(tbl) ==
    [i \in 1..Len(tbl) |->
        [encoding |-> Some(EncodingOf(tbl[i].image_path)), name |-> tbl[i].name,
         id |-> tbl[i].id]]

\* C11: nothing synchronizes the registry, so a recognition or status query
\* interleaved with a reload observes the registry as the reload has it at
\* that moment: partially rebuilt.  The registry holds a beginning of the
\* table's image, and holds fewer entries than the table has rows only
\* between a reload's clearing and its last add; a status answer counts at
\* most the rows, and a recognition answers with the first row's face, the
\* "Unknown" face, both or (when the list is emptied under it) nothing.
C11_QuerySeesPartialRegistry ==
    /\ IsPrefix(known_faces, ImageOfTable(students))
    /\ IsPrefix(known_face_names, [i \in 1..Len(students) |-> students[i].name])
    /\ IsPrefix(known_face_ids, [i \in 1..Len(students) |-> students[i].id])
    /\ Len(known_faces) < Len(students) =>
           reload_req.pc \in ReloadPcs \ {"clear_faces"}
    /\ resp.op = "status" =>
           /\ resp.known_faces_count <= Len(students)
           /\ IsPrefix(resp.known_face_names, [i \in 1..Len(students) |-> students[i].name])
    /\ resp.op = "recognize" =>
           /\ Len(resp.recognitions) <= 2
           /\ \A k \in 1..Len(resp.recognitions) :
                  \/ UnknownFace(resp.recognitions[k])
                  \/ /\ k = 1 /\ Len(students) > 0
                     /\ resp.recognitions[k].id = students[1].id
                     /\ resp.recognitions[k].name = students[1].name
                     /\ resp.recognitions[k].confidence = 85

\* with two students registered and a reload under way, a recognition has
\* answered with the "Unknown" face alone and a status query has counted one
\* face
C11_Witness ==
    /\ Len(students) = 2
    /\ reload_req.pc \in ReloadPcs
    /\ resp.op = "recognize"
    /\ Len(resp.recognitions) = 1
    /\ UnknownFace(resp.recognitions[1])
    /\ query_req.pc = "status_names"
    /\ query_req.count = 1

\* C12 (as stated): however the steps of a registration and of a reload
\* interleave, once both have completed the registry holds exactly one
\* entry per student row: the new student is neither missing nor there twice.
C12_RegistryWholeAfterBoth ==
    (reload_req.pc = "idle" /\ register_req.pc = "idle") =>
        /\ \A i \in 1..Len(students) :
               Cardinality({k \in 1..Len(known_faces) : known_faces[k].id = students[i].id}) = 1
        /\ Len(known_faces) = Len(students)

====
